---- MODULE Spec2Model ----
(***************************************************************************)
(* random-sunrise: a batch of sunriseClient.get operations run under       *)
(* Promise.all, each retrying bad answers of the sunrise-sunset API, all   *)
(* sharing one https.Agent with maxSockets 5, followed by the reduction    *)
(* findEarliestSunrise over the results.                                   *)
(***************************************************************************)
EXTENDS Integers, Sequences, FiniteSets, TLC

(* ------------------------------ bounds -------------------------------- *)
\* number of locations of a batch run (the program uses 100)
BatchSize == 3
\* answers other than a valid record that the API gives in a batch run
BatchFaults == 3
\* locations of a full-pool run beyond the number of sockets
Extra == 2
\* answers other than a valid record that the API gives in a full-pool run
PoolFaults == 1
\* answers other than a valid record that the API gives to the one get of a retry run
SingleFaults == 7
\* number of locations of a fair run
FairSize == 2
\* answers other than a valid record that the API gives in a fair run
FairFaults == 2
\* longest input of findEarliestSunrise in a reducer run
MaxLen == 3

(* ------------------------- program constants -------------------------- *)
\* new https.Agent({maxSockets: 5, keepAlive: true})
maxSockets == 5
\* if(retries < 5 && ...)
MaxRetries == 5
\* await sleep(10)
RetryDelay == 10

(* ----------------------------- data ----------------------------------- *)
\* Strings are sequences of character codes; JavaScript's < on two strings
\* compares them code unit by code unit, a proper prefix being smaller.
Chars == {1, 2}
Strings == {<<c>> : c \in Chars} \cup {<<c, d>> : c \in Chars, d \in Chars}

RECURSIVE StrLess(_, _)
StrLess(a, b) ==
  IF b = <<>> THEN FALSE
  ELSE IF a = <<>> THEN TRUE
  ELSE IF Head(a) # Head(b) THEN Head(a) < Head(b)
  ELSE StrLess(Tail(a), Tail(b))

\* SunriseResult, reduced to the two fields the program reads
DayLengths == {0, 7}
Records == [sunrise : Strings, day_length : DayLengths]

\* randomLatLon: the i-th location of the run, in units of 10^-8 degrees
randomLatLon(i) == [lat |-> 10 * i + 4, lon |-> 0 - (10 * i + 5)]

\* Number.prototype.toFixed(7): the nearest multiple of 10^-7, the larger on a tie
toFixed7(x) == (x + 5) \div 10

\* the sunrise the API computes for the place a request names
ApiSunrise(url) == <<1 + (url.lat[1] % 2)>>
ApiStatuses == {"OK", "INVALID_REQUEST", "INVALID_DATE", "UNKNOWN_ERROR"}

\* What the server sends back on a socket: a 2xx response with a JSON body (a
\* SunriseResponse: results holds a record when the status is OK and is the
\* empty string otherwise), a 2xx response whose body is no JSON, or a
\* non-2xx response.  An absent results record is the empty sequence.
JsonAnswers(url) ==
  [kind : {"json"}, status : {"OK"},
   results : {<<r>> : r \in [sunrise : {ApiSunrise(url)}, day_length : DayLengths]}]
  \cup [kind : {"json"}, status : ApiStatuses \ {"OK"}, results : {<<>>}]
Answers(url) ==
  JsonAnswers(url)
  \cup [kind : {"badJson", "badStatus"}, status : {"none"}, results : {<<>>}]
\* the request's "error" event, as the hist entry of the attempt it ends
TransportError == [kind |-> "error", status |-> "none", results |-> <<>>]

\* resp.results.day_length, absent when results is the empty string
day_length(resp) == IF resp.results = <<>> THEN <<>> ELSE <<resp.results[1].day_length>>

\* a 2xx response holding a record with a day length other than zero
IsValid(ans) ==
  ans.kind = "json" /\ ans.status = "OK" /\ day_length(ans) # <<0>>

(* ----------------------------- state ---------------------------------- *)
VARIABLES
  locations,  \* the LatLon array of the run
  baseUrl,    \* searchParams of the one module-level URL object
  started,    \* number of sunriseClient.get calls made by locations.map
  pc,         \* per operation: "idle", "awaitHttp", "sleeping", "returned", "thrown"
  retries,    \* per operation: the local retries
  outcome,    \* per operation: the record returned or the error thrown
  sockets,    \* agent: requests holding a socket, response pending
  leaked,     \* agent: requests holding a socket whose response is never read
  requests,   \* agent: requests waiting for a socket, in order
  log,        \* every request handed to https.get
  hist,       \* per operation: what its requests received, in order
  elapsed,    \* per operation: total delay of its completed sleeps
  budget,     \* answers other than a valid record the API may still give
  values,     \* Promise.all: the array of fulfilment values
  batch,      \* Promise.all: "pending", "fulfilled", "rejected"
  firstFailed,\* the operation that threw first (0: none yet)
  lastSettled,\* the operation whose promise settled last (0: none yet)
  stdout,     \* console.log lines
  stderr,     \* console.error lines
  sunrises,   \* argument of findEarliestSunrise
  earliest    \* result of findEarliestSunrise

vars == <<locations, baseUrl, started, pc, retries, outcome, sockets, leaked, requests,
          log, hist, elapsed, budget, values, batch, firstFailed, lastSettled,
          stdout, stderr, sunrises, earliest>>

N == Len(locations)
Ops == 1..N

NoOutcome == [kind |-> "none"]
Ok(rec) == [kind |-> "record", rec |-> rec]
\* an Error object: the operation that raised it (0: none) and its message
Err(i, text, status, dl) ==
  [kind |-> "error", op |-> i, text |-> text, status |-> status, day_length |-> dl]

(* ------------------------ findEarliestSunrise ------------------------- *)
\* the comparison turned round: a.sunrise > b.sunrise ? a : b
PickLatest(a, b) == IF StrLess(b.sunrise, a.sunrise) THEN a ELSE b

\* (a, b) => a.sunrise < b.sunrise ? a : b
Pick(a, b) == IF StrLess(a.sunrise, b.sunrise) THEN a ELSE b

\* Array.prototype.reduce without an initial value, over a non-empty array
RECURSIVE Reduce(_, _)
Reduce(acc, rest) ==
  IF rest = <<>> THEN acc ELSE Reduce(Pick(acc, Head(rest)), Tail(rest))

\* reduce given an initial value: an empty array yields that value
findEarliestSunriseWithInitial(arr) ==
  Ok(Reduce([sunrise |-> <<2, 2>>, day_length |-> 0], arr))

\* reduce of an empty array with no initial value throws a TypeError
findEarliestSunrise(arr) ==
  IF arr = <<>> THEN Err(0, "TypeError", "none", <<>>)
  ELSE Ok(Reduce(Head(arr), Tail(arr)))

(* ------------------------------ agent --------------------------------- *)
Occupied(a) == a.sockets \cup a.leaked

\* requests made without the agent option: no limit on sockets
HasFreeSocketNoAgent(a) == TRUE

\* a request may take a socket while fewer than maxSockets are in use
HasFreeSocket(a) == Cardinality(Occupied(a)) < maxSockets

\* https.get(url, {agent}): the request takes a socket or waits in the agent's queue
AddRequest(a, r) ==
  IF HasFreeSocket(a)
  THEN [a EXCEPT !.sockets = @ \cup {r}]
  ELSE [a EXCEPT !.requests = Append(@, r)]

\* a socket is given back: the first waiting request, if any, takes it
FreeSocket(a, r) ==
  LET b == [a EXCEPT !.sockets = @ \ {r}, !.leaked = @ \ {r}]
  IN IF b.requests # <<>> /\ HasFreeSocket(b)
     THEN [b EXCEPT !.sockets = @ \cup {Head(b.requests)}, !.requests = Tail(@)]
     ELSE b

\* the response is never read: the request keeps its socket
KeepSocket(a, r) == [a EXCEPT !.sockets = @ \ {r}, !.leaked = @ \cup {r}]

Agent == [sockets |-> sockets, leaked |-> leaked, requests |-> requests]

(* --------------------------- sunriseClient ---------------------------- *)
\* no rejection: whatever arrived is handed to get as the response
ResolvesAlways(ans) == TRUE

\* the promise of httpGetJson: resolved with the parsed body of a 2xx response,
\* rejected on a non-2xx status, on a body that is no JSON, on a request error
Resolves(ans) == ans.kind = "json"

Rejection(i, ans) ==
  Err(i, CASE ans.kind = "badStatus" -> "statusCode"
           [] ans.kind = "badJson" -> "SyntaxError"
           [] OTHER -> "transport", "none", <<>>)

\* retries <= 5 in place of retries < 5
DecideOneMore(r, resp) ==
  IF resp.status = "OK" /\ day_length(resp) # <<0>>
  THEN "return"
  ELSE IF r <= MaxRetries /\ (resp.status = "OK" \/ resp.status = "UNKNOWN_ERROR")
       THEN "retry"
       ELSE "throw"

\* the test of the status left out of the retry condition
DecideAnyStatus(r, resp) ==
  IF resp.status = "OK" /\ day_length(resp) # <<0>>
  THEN "return"
  ELSE IF r < MaxRetries THEN "retry" ELSE "throw"

\* UNKNOWN_ERROR left out of the retry condition
DecideOkOnly(r, resp) ==
  IF resp.status = "OK" /\ day_length(resp) # <<0>>
  THEN "return"
  ELSE IF r < MaxRetries /\ resp.status = "OK" THEN "retry" ELSE "throw"

\* the body of the while(true) loop after the await: what get does with resp
Decide(r, resp) ==
  IF resp.status = "OK" /\ day_length(resp) # <<0>>
  THEN "return"
  ELSE IF r < MaxRetries /\ (resp.status = "OK" \/ resp.status = "UNKNOWN_ERROR")
       THEN "retry"
       ELSE "throw"

\* new Error("Sunrise API status: " + resp.status + "  Day length: " + ...)
ApiError(i, resp) == Err(i, "Sunrise API status", resp.status, day_length(resp))

\* the line setting formatted left out
setSearchParamsLatLng(url, location) ==
  [url EXCEPT !.lat = <<toFixed7(location.lat)>>,
              !.lng = <<toFixed7(location.lon)>>]

\* apiUrl.searchParams.set, three times, on the URL object apiUrl names
setSearchParams(url, location) ==
  [url EXCEPT !.lat = <<toFixed7(location.lat)>>,
              !.lng = <<toFixed7(location.lon)>>,
              !.formatted = <<"0">>]

\* the request get hands to https.get: the URL object as it is at that moment
NewRequest(i, url) ==
  [op |-> i, seq |-> Cardinality({x \in log : x.op = i}) + 1, url |-> url]

\* sleep called without await: no time passes
sleepNotAwaited(t, millis) == t

\* await sleep(millis) started at time t ends no earlier than t + millis
sleep(t, millis) == t + millis

(* ----------------------------- Promise.all ---------------------------- *)
\* every rejection reported, as with a catch on each get
ReportedEach(b, errs, err) == Append(errs, err)

\* the latest rejection kept in place of the first
ReportedLast(b, errs, err) == <<err>>

\* no catch-handler: nothing is printed
ReportedNone(b, errs, err) == errs

\* .catch(err => console.error(err)): Promise.all rejects with the first
\* rejection and the handler runs for that one only
Reported(b, errs, err) == IF b = "pending" THEN Append(errs, err) ELSE errs

\* values pushed in the order of completion
StoreValuePush(vals, i, v) ==
  LET k == CHOOSE k \in DOMAIN vals :
             vals[k] = <<>> /\ \A j \in DOMAIN vals : j < k => vals[j] # <<>>
  IN [vals EXCEPT ![k] = <<v>>]

\* the resolve element function of input promise i
StoreValue(vals, i, v) == [vals EXCEPT ![i] = <<v>>]

\* the remaining elements count has reached zero
AllFulfilled(vals) == \A k \in DOMAIN vals : vals[k] # <<>>

(* -------------------------------- Init -------------------------------- *)
InitRun(locs, b, arr) ==
  /\ locations = locs
  /\ budget = b
  /\ baseUrl = [lat |-> <<>>, lng |-> <<>>, formatted |-> <<>>]
  /\ started = 0
  /\ pc = [i \in DOMAIN locs |-> "idle"]
  /\ retries = [i \in DOMAIN locs |-> 0]
  /\ outcome = [i \in DOMAIN locs |-> NoOutcome]
  /\ sockets = {}
  /\ leaked = {}
  /\ requests = <<>>
  /\ log = {}
  /\ hist = [i \in DOMAIN locs |-> <<>>]
  /\ elapsed = [i \in DOMAIN locs |-> 0]
  /\ values = [i \in DOMAIN locs |-> <<>>]
  /\ batch = "pending"
  /\ firstFailed = 0
  /\ lastSettled = 0
  /\ stdout = <<>>
  /\ stderr = <<>>
  /\ sunrises = arr
  /\ earliest = NoOutcome

\* let locations = Array.from({ length: 100 }, () => randomLatLon())
Init == InitRun([i \in 1..BatchSize |-> randomLatLon(i)], BatchFaults, <<>>)

(* ------------------------------ actions ------------------------------- *)
\* locations.map(loc => sunriseClient.get(loc)), call i: get runs up to its
\* first await, so it sets the search parameters of the shared URL object and
\* hands the first request to https.get
GetStart(i) ==
  /\ i = started + 1
  /\ i <= N
  /\ LET url == setSearchParams(baseUrl, locations[i])
         req == NewRequest(i, url)
         a == AddRequest(Agent, req)
     IN /\ baseUrl' = url
        /\ log' = log \cup {req}
        /\ sockets' = a.sockets
        /\ leaked' = a.leaked
        /\ requests' = a.requests
  /\ started' = i
  /\ retries' = [retries EXCEPT ![i] = 0]
  /\ pc' = [pc EXCEPT ![i] = "awaitHttp"]
  /\ UNCHANGED <<locations, outcome, hist, elapsed, budget, values, batch, firstFailed,
                 lastSettled, stdout, stderr, sunrises, earliest>>

\* get returns rec: its promise fulfils, Promise.all stores the value and, when
\* it was the last one, fulfils and the then-handler prints the earliest sunrise
Return(i, rec) ==
  LET vals == StoreValue(values, i, rec)
      arr == [k \in 1..N |-> vals[k][1]]
      e == findEarliestSunrise(arr)
  IN /\ pc' = [pc EXCEPT ![i] = "returned"]
     /\ outcome' = [outcome EXCEPT ![i] = Ok(rec)]
     /\ values' = vals
     /\ lastSettled' = i
     /\ UNCHANGED <<retries, firstFailed>>
     /\ IF batch = "pending" /\ AllFulfilled(vals)
        THEN /\ batch' = "fulfilled"
             /\ sunrises' = arr
             /\ earliest' = e
             /\ IF e.kind = "record"
                THEN /\ stdout' = stdout \o <<[rec |-> <<e.rec>>, num |-> <<>>],
                                              [rec |-> <<>>, num |-> <<e.rec.day_length>>]>>
                     /\ UNCHANGED stderr
                ELSE /\ stderr' = Append(stderr, e)
                     /\ UNCHANGED stdout
        ELSE UNCHANGED <<batch, sunrises, earliest, stdout, stderr>>

\* get throws err: its promise rejects, and Promise.all, when still pending,
\* rejects with it and the catch-handler prints it
Throw(i, err) ==
  /\ pc' = [pc EXCEPT ![i] = "thrown"]
  /\ outcome' = [outcome EXCEPT ![i] = err]
  /\ firstFailed' = IF firstFailed = 0 THEN i ELSE firstFailed
  /\ lastSettled' = i
  /\ batch' = IF batch = "pending" THEN "rejected" ELSE batch
  /\ stderr' = Reported(batch, stderr, err)
  /\ UNCHANGED <<retries, values, sunrises, earliest, stdout>>

\* retries++; await sleep(10)
Retry(i) ==
  /\ retries' = [retries EXCEPT ![i] = @ + 1]
  /\ pc' = [pc EXCEPT ![i] = "sleeping"]
  /\ UNCHANGED <<outcome, values, batch, firstFailed, lastSettled, stdout, stderr,
                 sunrises, earliest>>

\* the await of httpGetJson settles with ans and get goes on
Settle(i, ans) ==
  /\ hist' = [hist EXCEPT ![i] = Append(@, ans)]
  /\ budget' = IF IsValid(ans) THEN budget ELSE budget - 1
  /\ IF ~Resolves(ans)
     THEN Throw(i, Rejection(i, ans))
     ELSE CASE Decide(retries[i], ans) = "return" -> Return(i, ans.results[1])
            [] Decide(retries[i], ans) = "retry" -> Retry(i)
            [] OTHER -> Throw(i, ApiError(i, ans))

\* the response callback of https.get, and the "end" event of a 2xx response:
\* a non-2xx response is rejected without being read, so its socket is not
\* given back; a response read to its end gives the socket back
HttpResponse(r, ans) ==
  /\ started = N
  /\ r \in sockets
  /\ ~IsValid(ans) => budget > 0
  /\ LET a == IF ans.kind = "badStatus" THEN KeepSocket(Agent, r) ELSE FreeSocket(Agent, r)
     IN /\ sockets' = a.sockets
        /\ leaked' = a.leaked
        /\ requests' = a.requests
  /\ Settle(r.op, ans)
  /\ UNCHANGED <<locations, baseUrl, started, log, elapsed>>

\* req.on("error"): the socket is destroyed and its slot given back
ReqError(r) ==
  /\ started = N
  /\ r \in sockets
  /\ budget > 0
  /\ LET a == FreeSocket(Agent, r)
     IN /\ sockets' = a.sockets
        /\ leaked' = a.leaked
        /\ requests' = a.requests
  /\ Settle(r.op, TransportError)
  /\ UNCHANGED <<locations, baseUrl, started, log, elapsed>>

\* the server closes a connection whose response was never read
SocketClose(r) ==
  /\ r \in leaked
  /\ LET a == FreeSocket(Agent, r)
     IN /\ sockets' = a.sockets
        /\ leaked' = a.leaked
        /\ requests' = a.requests
  /\ UNCHANGED <<locations, baseUrl, started, pc, retries, outcome, log, hist, elapsed,
                 budget, values, batch, firstFailed, lastSettled, stdout, stderr,
                 sunrises, earliest>>

\* the promise of sleep never resolved: setTimeout given no callback
SleepNeverDone(i) == pc[i] = "sleeping" /\ FALSE /\ UNCHANGED vars

\* the timer of sleep fires: the loop goes round and hands the next request,
\* built from the shared URL object, to https.get
SleepDone(i) ==
  /\ started = N
  /\ pc[i] = "sleeping"
  /\ LET req == NewRequest(i, baseUrl)
         a == AddRequest(Agent, req)
     IN /\ log' = log \cup {req}
        /\ sockets' = a.sockets
        /\ leaked' = a.leaked
        /\ requests' = a.requests
  /\ elapsed' = [elapsed EXCEPT ![i] = sleep(@, RetryDelay)]
  /\ pc' = [pc EXCEPT ![i] = "awaitHttp"]
  /\ UNCHANGED <<locations, baseUrl, started, retries, outcome, hist, budget, values,
                 batch, firstFailed, lastSettled, stdout, stderr, sunrises, earliest>>

Next ==
  \/ \E i \in Ops : GetStart(i)
  \/ \E r \in sockets : \E ans \in Answers(r.url) : HttpResponse(r, ans)
  \/ \E r \in sockets : ReqError(r)
  \/ \E r \in leaked : SocketClose(r)
  \/ \E i \in Ops : SleepDone(i)

Spec == Init /\ [][Next]_vars

\* What the event loop and the network guarantee for gets 1..n: the script
\* runs to its end, a timer that is due fires, and a request that holds a
\* socket gets a response or a request error.  Nothing makes the server
\* close a connection whose response was not read.
Answered(i) ==
  \E r \in sockets :
    /\ r.op = i
    /\ \/ \E ans \in Answers(r.url) : HttpResponse(r, ans)
       \/ ReqError(r)

Fairness(n) ==
  /\ WF_vars(\E i \in Ops : GetStart(i))
  /\ \A i \in 1..n : WF_vars(SleepDone(i))
  /\ \A i \in 1..n : WF_vars(Answered(i))

InitFair == InitRun([i \in 1..FairSize |-> randomLatLon(i)], FairFaults, <<>>)
SpecFair == InitFair /\ [][Next]_vars /\ Fairness(FairSize)

\* one location more than sockets, the server answering each request with a
\* valid record or a non-2xx status
LeakAnswers(url) ==
  {ans \in Answers(url) : IsValid(ans) \/ ans.kind = "badStatus"}

InitLeak == InitRun([i \in 1..(maxSockets + 1) |-> randomLatLon(i)], maxSockets, <<>>)

NextLeak ==
  \/ \E i \in Ops : GetStart(i)
  \/ \E r \in sockets : \E ans \in LeakAnswers(r.url) : HttpResponse(r, ans)
  \/ \E r \in leaked : SocketClose(r)

SpecLeak == InitLeak /\ [][NextLeak]_vars /\ Fairness(maxSockets + 1)

\* one get on its own, the API free to answer badly as often as it likes
InitRetry == InitRun(<<randomLatLon(1)>>, SingleFaults, <<>>)
SpecRetry == InitRetry /\ [][Next]_vars

\* more locations than sockets
InitPool == InitRun([i \in 1..(maxSockets + Extra) |-> randomLatLon(i)], PoolFaults, <<>>)
SpecPool == InitPool /\ [][Next]_vars

\* findEarliestSunrise on its own, over every short array of records
RECURSIVE SeqsUpTo(_, _)
SeqsUpTo(S, n) ==
  IF n = 0 THEN {<<>>}
  ELSE LET shorter == SeqsUpTo(S, n - 1)
       IN shorter \cup {Append(q, x) : q \in shorter, x \in S}

InitEarliest == \E arr \in SeqsUpTo(Records, MaxLen) : InitRun(<<>>, 0, arr)

\* var earliest = findEarliestSunrise(sunrises)
CallFindEarliest ==
  /\ earliest = NoOutcome
  /\ earliest' = findEarliestSunrise(sunrises)
  /\ UNCHANGED <<locations, baseUrl, started, pc, retries, outcome, sockets, leaked,
                 requests, log, hist, elapsed, budget, values, batch, firstFailed,
                 lastSettled, stdout, stderr, sunrises>>

NextEarliest == CallFindEarliest
SpecEarliest == InitEarliest /\ [][NextEarliest]_vars

(* ------------------------------ claims -------------------------------- *)
Attempts(i) == Cardinality({x \in log : x.op = i})
Last(h) == h[Len(h)]
IsZeroDay(ans) == ans.kind = "json" /\ ans.status = "OK" /\ day_length(ans) = <<0>>
IsFatal(ans) == ans.kind = "json" /\ ans.status \in {"INVALID_REQUEST", "INVALID_DATE"}
AllZeroDay(h) == \A k \in 1..Len(h) : IsZeroDay(h[k])
Outstanding(i) ==
  Cardinality({x \in sockets : x.op = i})
  + Cardinality({k \in 1..Len(requests) : requests[k].op = i})

\* C1: at most 5 requests hold a socket at any time, first attempts and
\* retries alike, and a request waiting in the agent's queue holds none.
C1_AtMostFiveInFlight ==
  /\ Cardinality(sockets \cup leaked) <= 5
  /\ \A k \in 1..Len(requests) : requests[k] \notin sockets \cup leaked

\* five sockets are taken, a first attempt and a retry wait in the queue
C1_Witness ==
  /\ Cardinality(sockets \cup leaked) = 5
  /\ \E k \in 1..Len(requests) : requests[k].seq = 1
  /\ \E k \in 1..Len(requests) : requests[k].seq > 1

\* C2: answered OK with day_length 0 every time, a get makes exactly 6
\* attempts and then throws the error naming status OK and day length 0; it
\* neither stops earlier nor makes a 7th attempt.
C2_SixAttemptsThenFails ==
  \A i \in Ops :
    AllZeroDay(hist[i]) =>
      /\ Attempts(i) <= 6
      /\ Len(hist[i]) < 6 => pc[i] \in {"idle", "awaitHttp", "sleeping"}
      /\ Len(hist[i]) >= 6 =>
           /\ pc[i] = "thrown"
           /\ outcome[i] = Err(i, "Sunrise API status", "OK", <<0>>)
           /\ Attempts(i) = 6
           /\ retries[i] = 5

C2_Witness ==
  \E i \in Ops : Len(hist[i]) = 6 /\ AllZeroDay(hist[i]) /\ pc[i] = "thrown"

\* C3: once an attempt is answered INVALID_REQUEST or INVALID_DATE the get has
\* thrown the error naming that status: no further request is made and no
\* further delay is waited, whatever the number of retries used before; on
\* the first answer that is with no retry and no delay at all.
C3_FatalStatusFailsAtOnce ==
  \A i \in Ops :
    hist[i] # <<>> /\ IsFatal(Last(hist[i])) =>
      /\ pc[i] = "thrown"
      /\ outcome[i] = Err(i, "Sunrise API status", Last(hist[i]).status, <<>>)
      /\ Attempts(i) = Len(hist[i])
      /\ Outstanding(i) = 0
      /\ retries[i] = Len(hist[i]) - 1
      /\ elapsed[i] = 10 * (Len(hist[i]) - 1)
      /\ Len(hist[i]) = 1 => retries[i] = 0 /\ elapsed[i] = 0

\* a fatal status received after all 5 retries were used
C3_Witness ==
  \E i \in Ops :
    /\ Len(hist[i]) = 6
    /\ IsFatal(Last(hist[i]))
    /\ retries[i] = 5
    /\ pc[i] = "thrown"

\* C4: answered OK with day_length 0 exactly k times, k < 5, and then with a
\* valid record, a get returns that record after exactly k retries and k
\* delays of 10 units: k + 1 attempts, and none for k = 0.
C4_SucceedsAfterKRetries ==
  \A i \in Ops :
    \A k \in 0..4 :
      (/\ Len(hist[i]) = k + 1
       /\ AllZeroDay(SubSeq(hist[i], 1, k))
       /\ IsValid(Last(hist[i]))) =>
        /\ pc[i] = "returned"
        /\ outcome[i] = Ok(Last(hist[i]).results[1])
        /\ retries[i] = k
        /\ Attempts(i) = k + 1
        /\ elapsed[i] = 10 * k
        /\ Outstanding(i) = 0

C4_Witness ==
  \E i \in Ops :
    /\ Len(hist[i]) = 5
    /\ AllZeroDay(SubSeq(hist[i], 1, 4))
    /\ IsValid(Last(hist[i]))
    /\ pc[i] = "returned"
    /\ elapsed[i] = 40

\* C5: every request of the get started for location i, first attempt or
\* retry, carries the latitude and longitude of location i.
C5_RequestsCarryOwnCoordinates ==
  \A x \in log :
    /\ x.url.lat = <<toFixed7(locations[x.op].lat)>>
    /\ x.url.lng = <<toFixed7(locations[x.op].lon)>>

\* C6: the batch is rejected exactly when a get has thrown, and the one error
\* it reports is the error of the get that threw first, at all later times.
C6_BatchFailsWithFirstError ==
  /\ batch = "rejected" <=> firstFailed # 0
  /\ batch = "rejected" => stderr = <<outcome[firstFailed]>>

\* a second get has thrown a different error after the batch was rejected
C6_Witness ==
  /\ batch = "rejected"
  /\ \E j \in Ops :
       /\ j # firstFailed
       /\ pc[j] = "thrown"
       /\ outcome[j].text # outcome[firstFailed].text

FatalThrown(i) ==
  /\ pc[i] = "thrown"
  /\ outcome[i].text = "Sunrise API status"
  /\ outcome[i].status \in {"INVALID_REQUEST", "INVALID_DATE"}

\* C7 as stated: when a get has thrown the fatal API error, the batch is
\* rejected with that error, whatever the other gets did.
C7_FatalErrorIsBatchError ==
  \A i \in Ops : FatalThrown(i) => batch = "rejected" /\ stderr = <<outcome[i]>>

\* C7 amended: when a get has thrown the fatal API error the batch is
\* rejected, whatever the other gets did; it is rejected with that error when
\* that get is the first to throw, and with the error of the get that threw
\* first otherwise.
C7_FatalErrorFailsBatch ==
  \A i \in Ops :
    FatalThrown(i) =>
      /\ batch = "rejected"
      /\ Len(stderr) = 1
      /\ stdout = <<>>
      /\ firstFailed = i => stderr[1] = outcome[i]
      /\ firstFailed # i => stderr[1] = outcome[firstFailed] /\ stderr[1] # outcome[i]

\* the fatal error came first, one other get has returned and one still runs
C7_Witness ==
  \E i \in Ops :
    /\ FatalThrown(i)
    /\ firstFailed = i
    /\ \E j \in Ops : pc[j] = "returned"
    /\ \E j \in Ops : pc[j] \in {"awaitHttp", "sleeping"}

\* C8: when the batch is fulfilled every get has returned, and the array the
\* then-handler receives holds, at each position i, the record returned by
\* the get started for location i.
C8_ResultsInInputOrder ==
  batch = "fulfilled" =>
    /\ Len(sunrises) = N
    /\ \A i \in Ops : pc[i] = "returned" /\ outcome[i] = Ok(sunrises[i])

\* the get of the first location was the last to return
C8_Witness ==
  /\ batch = "fulfilled"
  /\ lastSettled = 1
  /\ sunrises[1] # sunrises[2]

\* C9: a result is printed only when every get has returned, and it is the
\* earliest record followed by its day_length; once a get has thrown, one
\* error of a get that threw is printed and no result; never both.
C9_ResultOrErrorNeverBoth ==
  /\ stdout # <<>> =>
       /\ \A i \in Ops : pc[i] = "returned"
       /\ earliest.kind = "record"
       /\ stdout = <<[rec |-> <<earliest.rec>>, num |-> <<>>],
                     [rec |-> <<>>, num |-> <<earliest.rec.day_length>>]>>
  /\ (\E i \in Ops : pc[i] = "thrown") =>
       /\ stdout = <<>>
       /\ Len(stderr) = 1
       /\ \E j \in Ops : pc[j] = "thrown" /\ stderr[1] = outcome[j]
  /\ ~(stdout # <<>> /\ stderr # <<>>)

\* every get is done, one returned and one threw: an error and no result
C9_Witness ==
  /\ \A i \in Ops : pc[i] \in {"returned", "thrown"}
  /\ \E i \in Ops : pc[i] = "returned"
  /\ \E i \in Ops : pc[i] = "thrown"
  /\ stdout = <<>>
  /\ Len(stderr) = 1

\* a <= b for strings: a is a prefix of b, or smaller at the first difference
LexLeq(a, b) ==
  \E n \in 0..Len(a) :
    /\ n <= Len(b)
    /\ \A k \in 1..n : a[k] = b[k]
    /\ \/ n = Len(a)
       \/ n < Len(b) /\ a[n + 1] < b[n + 1]

\* C10: for a non-empty array, findEarliestSunrise returns an element of the
\* array whose sunrise is less than or equal to the sunrise of every element.
C10_EarliestIsMinimum ==
  N = 0 /\ sunrises # <<>> /\ earliest.kind # "none" =>
    /\ earliest.kind = "record"
    /\ \E k \in 1..Len(sunrises) : sunrises[k] = earliest.rec
    /\ \A k \in 1..Len(sunrises) : LexLeq(earliest.rec.sunrise, sunrises[k].sunrise)

\* the second of three records is strictly the earliest and is returned
C10_Witness ==
  /\ N = 0
  /\ Len(sunrises) = 3
  /\ earliest.kind = "record"
  /\ earliest.rec = sunrises[2]
  /\ sunrises[2].sunrise # sunrises[1].sunrise
  /\ sunrises[2].sunrise # sunrises[3].sunrise
  /\ Len(sunrises[2].sunrise) # Len(sunrises[1].sunrise)

\* the positions of the records of arr whose sunrise no record of arr is below
MinPositions(arr) ==
  {k \in 1..Len(arr) : \A j \in 1..Len(arr) : LexLeq(arr[k].sunrise, arr[j].sunrise)}
FirstOf(S) == CHOOSE k \in S : \A j \in S : k <= j

\* C11: of several records sharing the smallest sunrise,
\* findEarliestSunrise returns the one that comes first in the array.
C11_FirstOfTiedWins ==
  N = 0 /\ sunrises # <<>> /\ earliest.kind = "record" =>
    earliest.rec = sunrises[FirstOf(MinPositions(sunrises))]

\* C12: called with no records, findEarliestSunrise ends in an error and
\* returns no record.
C12_EmptyInputFails ==
  N = 0 /\ sunrises = <<>> /\ earliest.kind # "none" =>
    /\ earliest.kind = "error"
    /\ earliest.text = "TypeError"

C12_Witness == N = 0 /\ sunrises = <<>> /\ earliest.kind = "error"

IsUnknownError(ans) == ans.kind = "json" /\ ans.status = "UNKNOWN_ERROR"
AllTransient(h) == \A k \in 1..Len(h) : IsZeroDay(h[k]) \/ IsUnknownError(h[k])

\* C13: zero-day answers and UNKNOWN_ERROR answers, in any mixture, draw on
\* the one retries counter: each is retried while fewer than 5 retries were
\* used, the 6th in a row makes the get throw, and a get never makes more
\* than 6 attempts nor counts more than 5 retries.
C13_TransientAnswersShareBudget ==
  \A i \in Ops :
    /\ Attempts(i) <= 6
    /\ retries[i] <= 5
    /\ AllTransient(hist[i]) /\ hist[i] # <<>> =>
         /\ Len(hist[i]) <= 6
         /\ Len(hist[i]) < 6 =>
              /\ pc[i] \in {"sleeping", "awaitHttp"}
              /\ retries[i] = Len(hist[i])
         /\ Len(hist[i]) = 6 =>
              /\ pc[i] = "thrown"
              /\ retries[i] = 5
              /\ outcome[i] = ApiError(i, Last(hist[i]))

\* six transient answers of both kinds, the last an UNKNOWN_ERROR
C13_Witness ==
  \E i \in Ops :
    /\ Len(hist[i]) = 6
    /\ AllTransient(hist[i])
    /\ \E k \in 1..5 : IsZeroDay(hist[i][k])
    /\ \E k \in 1..5 : IsUnknownError(hist[i][k])
    /\ IsUnknownError(hist[i][6])
    /\ pc[i] = "thrown"

\* C14: a get has at most one request waiting or on a socket; a new attempt
\* is made only when every earlier one has been answered and one delay per
\* earlier attempt has been waited.
C14_AttemptsAreSequential ==
  \A i \in Ops :
    /\ Outstanding(i) <= 1
    /\ Outstanding(i) = Attempts(i) - Len(hist[i])
    /\ Outstanding(i) = 1 <=> pc[i] = "awaitHttp"
    /\ Attempts(i) >= 1 => elapsed[i] = 10 * (Attempts(i) - 1)
    /\ pc[i] = "sleeping" => Attempts(i) = retries[i]

\* a retry waits in the agent's queue, its delay waited, its get's first
\* attempt answered
C14_Witness ==
  \E k \in 1..Len(requests) :
    /\ requests[k].seq = 2
    /\ Len(hist[requests[k].op]) = 1
    /\ elapsed[requests[k].op] = 10

\* C17: the sockets in use are exactly those of the requests whose promise
\* is not settled yet: however httpGetJson settles, the socket is given back.
C17_SettlingFreesTheSocket ==
  Cardinality(sockets \cup leaked) = Cardinality(sockets)

\* C20: every request handed to https.get, first attempt or retry of any
\* get, has the search parameter formatted set to "0".
C20_EveryRequestUnformatted ==
  \A x \in log : x.url.formatted = <<"0">>

\* first attempts of every get and a retry have been made
C20_Witness ==
  /\ \A i \in Ops : \E x \in log : x.op = i /\ x.seq = 1
  /\ \E x \in log : x.seq > 1
  /\ N > 1

IsNetworkError(ans) == ans.kind \in {"error", "badStatus", "badJson"}

\* C18: once an attempt has ended in a transport error, a non-2xx status or
\* a body that is no JSON, the get has thrown that very error: no further
\* request is made and no further delay waited, whatever the number of
\* retries used before, and the batch is rejected.
C18_NetworkErrorFailsAtOnce ==
  \A i \in Ops :
    hist[i] # <<>> /\ IsNetworkError(Last(hist[i])) =>
      /\ pc[i] = "thrown"
      /\ outcome[i] = Rejection(i, Last(hist[i]))
      /\ outcome[i].text \in {"transport", "statusCode", "SyntaxError"}
      /\ Attempts(i) = Len(hist[i])
      /\ Outstanding(i) = 0
      /\ retries[i] = Len(hist[i]) - 1
      /\ elapsed[i] = 10 * (Len(hist[i]) - 1)
      /\ batch = "rejected"

\* a body that is no JSON arrives when two retries were used and three are left
C18_Witness ==
  \E i \in Ops :
    /\ Len(hist[i]) = 3
    /\ Last(hist[i]).kind = "badJson"
    /\ retries[i] = 2
    /\ pc[i] = "thrown"
    /\ batch = "rejected"

\* the valid answer the API can give to a request
ValidAnswer(url) ==
  [kind |-> "json", status |-> "OK",
   results |-> <<[sunrise |-> ApiSunrise(url), day_length |-> 7]>>]

\* the gets that are not done can all go on: a request on a socket can be
\* answered, a sleeping get can wake up and make its next request, and a
\* get awaiting an answer still has its request with the agent
NotCancelled ==
  /\ \A r \in sockets : ENABLED HttpResponse(r, ValidAnswer(r.url))
  /\ \A i \in Ops : pc[i] = "sleeping" => ENABLED SleepDone(i)
  /\ \A i \in Ops : pc[i] = "awaitHttp" => Outstanding(i) = 1

\* C15: once the batch is rejected, the gets that are not done are not
\* cancelled: they go on with their attempts and retries, holding sockets,
\* and whatever they end in, the batch stays rejected, the error printed
\* stays the only one and no result is printed.
C15_FailedBatchCancelsNothing ==
  /\ [](batch = "rejected" => NotCancelled)
  /\ [][batch = "rejected" =>
          /\ batch' = "rejected"
          /\ stderr' = stderr
          /\ stdout' = stdout
          /\ Len(stderr) = 1]_vars

\* after the batch was rejected another get retried, then returned
C15_Witness ==
  /\ batch = "rejected"
  /\ firstFailed # 0
  /\ lastSettled # firstFailed
  /\ pc[lastSettled] = "returned"
  /\ retries[lastSettled] >= 1
  /\ \E i \in Ops : pc[i] \in {"awaitHttp", "sleeping"}
  /\ Len(stderr) = 1

Queued(i) == \E k \in 1..Len(requests) : requests[k].op = i

\* C16: a request waiting in the agent's queue is eventually given a socket,
\* when timers fire and every request holding a socket is answered or fails.
C16_QueuedRequestIsAdmitted ==
  \A i \in 1..(maxSockets + 1) : Queued(i) ~> ~Queued(i)

Done(i) == pc[i] \in {"returned", "thrown"}
BatchDone ==
  \/ batch = "fulfilled" /\ Len(stdout) = 2 /\ stderr = <<>>
  \/ batch = "rejected" /\ Len(stderr) = 1 /\ stdout = <<>>
Unanswered(i) == Attempts(i) > Len(hist[i])

\* every request handed to https.get is eventually answered or fails
EveryRequestAnswered == \A i \in 1..FairSize : Unanswered(i) ~> ~Unanswered(i)

====
